---- MODULE Spec2Model ----
(***************************************************************************)
(* FastCircularDependencyPlugin (src/index.ts): one build pass of the      *)
(* optimizeModules tap.  The pass ingests the host's module records into a *)
(* tarjan-graph Graph, asks it for its cycles, filters each one with the   *)
(* exclude/include patterns and reports it through onDetected or as a       *)
(* default warning/error.  Spec is one pass; RoutingSpec is one pass over   *)
(* inputs that differ in failOnError; WatchSpec is a host that builds       *)
(* twice with the same plugin instance, with callbacks that may throw, weak *)
(* dependencies and module records that are not normal modules.            *)
(*                                                                         *)
(* The Graph class is the tarjan-graph package imported at src/index.ts:3. *)
(* Its add and getCycles are modelled by what the package does: add        *)
(* replaces the successor list of the key, getCycles returns the strongly  *)
(* connected components of size > 1 and the self-looping vertices, each in *)
(* the order it was popped from Tarjan's stack.                            *)
(***************************************************************************)
EXTENDS Integers, Sequences, FiniteSets, TLC

VARIABLES
    modules,    \* the host's module records, in iteration order
    options,    \* this.options
    pc,         \* position of the optimizeModules callback
    mi,         \* index of the module the ingestion loop is at
    graph,      \* the tarjan-graph Graph: [keys, successors]
    cycles,     \* the array graph.getCycles() returned
    ci,         \* index of the cycle the reporting loop is at
    warnings,   \* compilation.warnings
    errors,     \* compilation.errors
    detected,   \* the onDetected invocations so far, with their arguments
    hooks,      \* the onStart / onEnd invocations so far
    pass,       \* number of the build pass (compilation) of this plugin instance
    previous    \* what the pass before this one reported

vars == <<modules, options, pc, mi, graph, cycles, ci, warnings, errors, detected, hooks,
          pass, previous>>

---------------------------------------------------------------------------
(* Bounds of the model *)

MaxModules == 4     \* module records handed over by the host
MaxDeps == 2        \* dependency records of one module
MaxEdges == 4       \* dependency records of one pass

---------------------------------------------------------------------------
(* Paths.  A path is the sequence of its segments. *)

FileNames == <<"a", "b", "c", "d", "e", "f">>

ProjectDir == <<"w", "src">>
VendorDir == <<"w", "lib">>

\* module.resource of the k-th module record: an absolute path
ResourceOf(k) == (IF k % 4 = 0 THEN VendorDir ELSE ProjectDir) \o <<FileNames[k]>>

\* !module.resource
NoResource == <<>>

Min(a, b) == IF a < b THEN a ELSE b

RECURSIVE CommonPrefix(_, _)
CommonPrefix(p, q) ==
    IF p = <<>> \/ q = <<>> \/ Head(p) # Head(q) THEN 0
    ELSE 1 + CommonPrefix(Tail(p), Tail(q))

\* path.relative(from, to) on two absolute paths
Relative(from, to) ==
    LET k == CommonPrefix(from, to)
    IN  [i \in 1..(Len(from) - k) |-> ".."] \o SubSeq(to, k + 1, Len(to))

Reverse(s) == [i \in 1..Len(s) |-> s[Len(s) + 1 - i]]

Range(s) == {s[i] : i \in 1..Len(s)}

---------------------------------------------------------------------------
(* tarjan-graph: Graph.add, getStronglyConnectedComponents, getCycles *)

EmptyGraph == [keys |-> <<>>, successors |-> <<>>]

HasVertex(g, name) == name \in Range(g.keys)

\* this.vertices[key] = new Vertex(key, []) when the key is new
EnsureVertex(g, name) ==
    IF HasVertex(g, name) THEN g
    ELSE [keys |-> Append(g.keys, name),
          successors |-> [n \in Range(g.keys) \cup {name} |->
                              IF n = name THEN <<>> ELSE g.successors[n]]]

RECURSIVE EnsureVertices(_, _)
EnsureVertices(g, names) ==
    IF names = <<>> THEN g
    ELSE EnsureVertices(EnsureVertex(g, Head(names)), Tail(names))

\* Graph.add(key, descendants): the descendants' vertices are created first,
\* then the key's; the key's successors are REPLACED by the reversed list.
GraphAdd(g, key, descendants) ==
    LET g1 == EnsureVertex(EnsureVertices(g, descendants), key)
    IN  [g1 EXCEPT !.successors[key] = Reverse(descendants)]

\* state of getStronglyConnectedComponents before the first stronglyConnect
TarjanInit(g) ==
    [index |-> 0,
     idx |-> [n \in Range(g.keys) |-> -1],
     low |-> [n \in Range(g.keys) |-> -1],
     stack |-> <<>>,
     components |-> <<>>]

\* do { w = stack.pop(); scc.push(w) } while (w !== v)
RECURSIVE PopComponent(_, _, _)
PopComponent(stack, v, scc) ==
    LET w == stack[Len(stack)]
        rest == SubSeq(stack, 1, Len(stack) - 1)
    IN  IF w = v THEN [stack |-> rest, scc |-> Append(scc, w)]
        ELSE PopComponent(rest, v, Append(scc, w))

RECURSIVE StronglyConnect(_, _, _)
RECURSIVE VisitSuccessors(_, _, _, _)

\* v.successors.forEach((w) => ...)
VisitSuccessors(g, v, ws, st) ==
    IF ws = <<>> THEN st
    ELSE LET w == Head(ws)
             st1 == IF st.idx[w] < 0
                    THEN LET s == StronglyConnect(g, w, st)
                         IN  [s EXCEPT !.low[v] = Min(s.low[v], s.low[w])]
                    ELSE IF w \in Range(st.stack)
                         THEN [st EXCEPT !.low[v] = Min(st.low[v], st.idx[w])]
                         ELSE st
         IN  VisitSuccessors(g, v, Tail(ws), st1)

StronglyConnect(g, v, st) ==
    LET entered == [st EXCEPT !.idx[v] = st.index,
                              !.low[v] = st.index,
                              !.index = st.index + 1,
                              !.stack = Append(st.stack, v)]
        visited == VisitSuccessors(g, v, g.successors[v], entered)
    IN  IF visited.low[v] = visited.idx[v]
        THEN LET popped == PopComponent(visited.stack, v, <<>>)
             IN  [visited EXCEPT !.stack = popped.stack,
                                 !.components = Append(visited.components, popped.scc)]
        ELSE visited

\* V.forEach((v) => { if (v.index < 0) stronglyConnect(v) })
RECURSIVE ConnectAll(_, _, _)
ConnectAll(g, vs, st) ==
    IF vs = <<>> THEN st
    ELSE ConnectAll(g, Tail(vs),
                    IF st.idx[Head(vs)] < 0 THEN StronglyConnect(g, Head(vs), st) ELSE st)

GetStronglyConnectedComponents(g) == ConnectAll(g, g.keys, TarjanInit(g)).components

\* scc.length > 1, or the single vertex is its own successor
IsCycleComponent(g, scc) ==
    \/ Len(scc) > 1
    \/ scc[1] \in Range(g.successors[scc[1]])

GetCycles(g) ==
    SelectSeq(GetStronglyConnectedComponents(g), LAMBDA scc : IsCycleComponent(g, scc))

---------------------------------------------------------------------------
(* The plugin: src/index.ts *)

\* the constructor's defaults: exclude /$^/ matches nothing, include /.*/ everything.
\* A pattern is the set of absolute paths it matches.
AllResources == {ResourceOf(k) : k \in 1..MaxModules}

DefaultOptions ==
    [exclude |-> {},
     include |-> AllResources,
     failOnError |-> FALSE,
     allowAsyncCycles |-> FALSE,
     onDetected |-> FALSE,
     onStart |-> FALSE,
     onEnd |-> FALSE,
     cwd |-> ProjectDir]

\* faulty variant: the instanceof NormalModule test is missing
HasResource(m) == m.resource # NoResource

\* module instanceof NormalModule && module.resource
IsTracked(m) == m.normal /\ m.resource # NoResource

\* faulty variant: the allowAsyncCycles check of line 77 is missing
KeepsWeakDependency(self, dep) ==
    /\ dep.module # 0
    /\ dep.module # self
    /\ IsTracked(modules[dep.module])

\* the guards of the dependency loop (lines 66-79): the dependency is kept
KeepsDependency(self, dep) ==
    /\ dep.module # 0
    /\ dep.module # self
    /\ IsTracked(modules[dep.module])
    /\ ~(options.allowAsyncCycles /\ dep.weak)

RECURSIVE DependencyResources(_, _)
DependencyResources(self, deps) ==
    IF deps = <<>> THEN <<>>
    ELSE (IF KeepsDependency(self, Head(deps))
          THEN <<modules[Head(deps).module].resource>> ELSE <<>>)
         \o DependencyResources(self, Tail(deps))

\* the guard of line 59: the module record is skipped
SkipsModule(m) == ~m.normal \/ m.resource = NoResource \/ m.dependencies = <<>>

\* exclude.test(name) || !include.test(name)
IsExcluded(name) == name \in options.exclude \/ name \notin options.include

\* faulty variant: cycle.some(...) in place of cycle.every(...)
SomePartOfCycleIsExcluded(cycle) == \E i \in 1..Len(cycle) : IsExcluded(cycle[i])

\* faulty variant: exclude and include tested as two separate conditions
EveryPartExcludedOrNoneIncluded(cycle) ==
    \/ \A i \in 1..Len(cycle) : cycle[i] \in options.exclude
    \/ \A i \in 1..Len(cycle) : cycle[i] \notin options.include

\* cycle.every(...)
EveryPartOfCycleIsExcluded(cycle) == \A i \in 1..Len(cycle) : IsExcluded(cycle[i])

\* faulty variant: the reverse() is missing
CycleModulePathsUnreversed(cycle) ==
    LET rel == [i \in 1..Len(cycle) |-> Relative(options.cwd, cycle[i])]
    IN  Append(rel, rel[1])

\* cycle.map(relative).reverse(), then push(cycleModulePaths[0])
CycleModulePaths(cycle) ==
    LET rel == Reverse([i \in 1..Len(cycle) |-> Relative(options.cwd, cycle[i])])
    IN  Append(rel, rel[1])

\* new WebpackError(`Circular dependency detected:\r\n ${paths.join(' -> ')}`)
CycleError(paths) == [kind |-> "cycle", message |-> paths]

\* an onStart / onEnd invocation; threw: the callback threw
HookCall(name, threw) == [name |-> name, threw |-> threw]

\* lines 54-56.  onStart is called outside any try: what it throws leaves the
\* callback (pc = "thrown") before the graph is created.
Start ==
    /\ pc = "idle"
    /\ \E throws \in {t \in BOOLEAN : t => options.onStart} :
         /\ hooks' = IF options.onStart THEN Append(hooks, HookCall("onStart", throws))
                      ELSE hooks
         /\ IF throws
            THEN pc' = "thrown" /\ UNCHANGED <<graph, mi>>
            ELSE pc' = "ingest" /\ graph' = EmptyGraph /\ mi' = 1
    /\ UNCHANGED <<modules, options, cycles, ci, warnings, errors, detected, pass, previous>>

SkipModule ==
    /\ pc = "ingest"
    /\ mi <= Len(modules)
    /\ SkipsModule(modules[mi])
    /\ mi' = mi + 1
    /\ UNCHANGED <<modules, options, pc, graph, cycles, ci, warnings, errors, detected, hooks, pass, previous>>

AddModule ==
    /\ pc = "ingest"
    /\ mi <= Len(modules)
    /\ ~SkipsModule(modules[mi])
    /\ graph' = GraphAdd(graph, modules[mi].resource,
                         DependencyResources(mi, modules[mi].dependencies))
    /\ mi' = mi + 1
    /\ UNCHANGED <<modules, options, pc, cycles, ci, warnings, errors, detected, hooks, pass, previous>>

\* faulty variant: asks the graph for all its components, not for its cycles
FindComponents ==
    /\ pc = "ingest"
    /\ mi > Len(modules)
    /\ cycles' = GetStronglyConnectedComponents(graph)
    /\ ci' = 1
    /\ pc' = "report"
    /\ UNCHANGED <<modules, options, mi, graph, warnings, errors, detected, hooks, pass, previous>>

\* faulty variant: the cycles found are added to those of the pass before
FindCyclesAgain ==
    /\ pc = "ingest"
    /\ mi > Len(modules)
    /\ cycles' = cycles \o GetCycles(graph)
    /\ ci' = 1
    /\ pc' = "report"
    /\ UNCHANGED <<modules, options, mi, graph, warnings, errors, detected, hooks, pass, previous>>

\* line 86: graph.getCycles() is evaluated once, when the loop starts
FindCycles ==
    /\ pc = "ingest"
    /\ mi > Len(modules)
    /\ cycles' = GetCycles(graph)
    /\ ci' = 1
    /\ pc' = "report"
    /\ UNCHANGED <<modules, options, mi, graph, warnings, errors, detected, hooks, pass, previous>>

SuppressCycle ==
    /\ pc = "report"
    /\ ci <= Len(cycles)
    /\ EveryPartOfCycleIsExcluded(cycles[ci])
    /\ ci' = ci + 1
    /\ UNCHANGED <<modules, options, pc, mi, graph, cycles, warnings, errors, detected, hooks, pass, previous>>

\* the value an onDetected callback threw at its n-th invocation
ThrownError(n) == [kind |-> "thrown", call |-> n]

\* faulty variant: the continue after the callback is missing, so the
\* default diagnostic is pushed as well
CallOnDetectedFallsThrough ==
    /\ pc = "report"
    /\ ci <= Len(cycles)
    /\ ~EveryPartOfCycleIsExcluded(cycles[ci])
    /\ options.onDetected
    /\ \E throws \in BOOLEAN :
         LET paths == CycleModulePaths(cycles[ci])
             thrown == IF throws THEN <<ThrownError(Len(detected) + 1)>> ELSE <<>>
         IN  /\ detected' = Append(detected, [paths |-> paths, module |-> 0,
                                              threw |-> throws])
             /\ IF options.failOnError
                THEN /\ errors' = errors \o thrown \o <<CycleError(paths)>>
                     /\ UNCHANGED warnings
                ELSE /\ errors' = errors \o thrown
                     /\ warnings' = Append(warnings, CycleError(paths))
    /\ ci' = ci + 1
    /\ UNCHANGED <<modules, options, pc, mi, graph, cycles, hooks, pass, previous>>

\* faulty variant: no try/catch, what the callback throws leaves the pass
CallOnDetectedUncaught ==
    /\ pc = "report"
    /\ ci <= Len(cycles)
    /\ ~EveryPartOfCycleIsExcluded(cycles[ci])
    /\ options.onDetected
    /\ \E throws \in BOOLEAN :
         /\ detected' = Append(detected, [paths |-> CycleModulePaths(cycles[ci]),
                                          module |-> 0,
                                          threw |-> throws])
         /\ pc' = IF throws THEN "thrown" ELSE pc
    /\ ci' = ci + 1
    /\ UNCHANGED <<modules, options, mi, graph, cycles, warnings, errors, hooks, pass, previous>>

\* lines 97-107: the callback returns or throws; what it throws is pushed to
\* compilation.errors.  The call passes { paths, compilation }: no module.
CallOnDetected ==
    /\ pc = "report"
    /\ ci <= Len(cycles)
    /\ ~EveryPartOfCycleIsExcluded(cycles[ci])
    /\ options.onDetected
    /\ \E throws \in BOOLEAN :
         /\ detected' = Append(detected, [paths |-> CycleModulePaths(cycles[ci]),
                                          module |-> 0,
                                          threw |-> throws])
         /\ errors' = IF throws THEN Append(errors, ThrownError(Len(detected) + 1))
                      ELSE errors
    /\ ci' = ci + 1
    /\ UNCHANGED <<modules, options, pc, mi, graph, cycles, warnings, hooks, pass, previous>>

\* faulty variant: the default diagnostic goes to the warnings as well when
\* failOnError is set
ReportCycleWarnsToo ==
    /\ pc = "report"
    /\ ci <= Len(cycles)
    /\ ~EveryPartOfCycleIsExcluded(cycles[ci])
    /\ ~options.onDetected
    /\ LET error == CycleError(CycleModulePaths(cycles[ci]))
       IN  /\ warnings' = Append(warnings, error)
           /\ errors' = IF options.failOnError THEN Append(errors, error) ELSE errors
    /\ ci' = ci + 1
    /\ UNCHANGED <<modules, options, pc, mi, graph, cycles, detected, hooks, pass, previous>>

\* lines 109-115
ReportCycle ==
    /\ pc = "report"
    /\ ci <= Len(cycles)
    /\ ~EveryPartOfCycleIsExcluded(cycles[ci])
    /\ ~options.onDetected
    /\ LET error == CycleError(CycleModulePaths(cycles[ci]))
       IN  IF options.failOnError
           THEN errors' = Append(errors, error) /\ UNCHANGED warnings
           ELSE warnings' = Append(warnings, error) /\ UNCHANGED errors
    /\ ci' = ci + 1
    /\ UNCHANGED <<modules, options, pc, mi, graph, cycles, detected, hooks, pass, previous>>

\* faulty variant: onEnd is called from inside the cycle loop
EndInsideLoop ==
    /\ pc = "report"
    /\ \E throws \in {t \in BOOLEAN : t => options.onEnd} :
         /\ hooks' = IF options.onEnd THEN Append(hooks, HookCall("onEnd", throws))
                      ELSE hooks
         /\ pc' = IF throws THEN "thrown" ELSE "ended"
    /\ UNCHANGED <<modules, options, mi, graph, cycles, ci, warnings, errors, detected, pass, previous>>

\* line 118.  onEnd is called outside any try as well.
End ==
    /\ pc = "report"
    /\ ci > Len(cycles)
    /\ \E throws \in {t \in BOOLEAN : t => options.onEnd} :
         /\ hooks' = IF options.onEnd THEN Append(hooks, HookCall("onEnd", throws))
                      ELSE hooks
         /\ pc' = IF throws THEN "thrown" ELSE "ended"
    /\ UNCHANGED <<modules, options, mi, graph, cycles, ci, warnings, errors, detected, pass, previous>>

\* what a pass reported: the path lists given to onDetected and the default
\* diagnostics, in the order they were emitted
PassReport ==
    [detected |-> [i \in 1..Len(detected) |-> detected[i].paths],
     warnings |-> warnings,
     errors |-> SelectSeq(errors, LAMBDA e : e.kind = "cycle")]

NoReport == [detected |-> <<>>, warnings |-> <<>>, errors |-> <<>>]

\* lines 52-53: the host builds again (watch mode).  The same plugin instance,
\* with the same this.options, is handed a new compilation, whose warnings and
\* errors are empty, and the same module records; the locals of the callback
\* are whatever Start and FindCycles make them.
Rebuild ==
    /\ pc = "ended"
    /\ pass = 1
    /\ pass' = pass + 1
    /\ previous' = PassReport
    /\ pc' = "idle"
    /\ warnings' = <<>>
    /\ errors' = <<>>
    /\ detected' = <<>>
    /\ hooks' = <<>>
    /\ UNCHANGED <<modules, options, mi, graph, cycles, ci>>

Next ==
    \/ Start
    \/ SkipModule
    \/ AddModule
    \/ FindCycles
    \/ SuppressCycle
    \/ CallOnDetected
    \/ ReportCycle
    \/ End

\* the passes of a host that rebuilds
WatchNext ==
    \/ Next
    \/ Rebuild

---------------------------------------------------------------------------
(* Inputs of a pass *)

NormalModuleRecord(resource, deps) ==
    [normal |-> TRUE, resource |-> resource, dependencies |-> deps]

\* a dependency record: the index of the module it resolves to (0: to none)
\* and its weak flag
Dependency(target) == [module |-> target, weak |-> FALSE]

\* a dependency record with dependency.weak set
WeakDependency(target) == [module |-> target, weak |-> TRUE]

RECURSIVE SumTo(_, _)
SumTo(f, n) == IF n = 0 THEN 0 ELSE f[n] + SumTo(f, n - 1)

\* how many dependency records each module has: at most MaxDeps each and
\* MaxEdges in all
DependencyCounts ==
    {c \in [1..MaxModules -> 0..MaxDeps] : SumTo(c, MaxModules) <= MaxEdges}

\* the x-th module other than k
OtherModule(k, x) == IF x < k THEN x ELSE x + 1

\* the module records with counts[k] dependencies each, whose targets are
\* listed in one row
ModulesFrom(counts, targets) ==
    [k \in 1..MaxModules |->
        NormalModuleRecord(ResourceOf(k),
            [i \in 1..counts[k] |->
                Dependency(OtherModule(k, targets[SumTo(counts, k - 1) + i]))])]

\* the rows of targets for the counts c
TargetRows(c) == [1..SumTo(c, MaxModules) -> 1..(MaxModules - 1)]

\* module k carries the resource of module owner[k] and has at most one
\* dependency record, on any module, itself included (target[k] = 0: none)
SimpleModulesFrom(owner, target) ==
    [k \in 1..MaxModules |->
        NormalModuleRecord(ResourceOf(owner[k]),
            IF target[k] = 0 THEN <<>> ELSE <<Dependency(target[k])>>)]

OwnResource == [k \in 1..MaxModules |-> k]

SimpleTargets == [1..MaxModules -> 0..MaxModules]

\* the same without dependencies of a module on itself
OtherTargets ==
    {[k \in 1..MaxModules |-> IF x[k] = 0 THEN 0 ELSE OtherModule(k, x[k])] :
        x \in [1..MaxModules -> 0..(MaxModules - 1)]}

\* patterns that tell the first two resources from the rest
FilteredResources == {ResourceOf(1), ResourceOf(2)}

InitPass ==
    /\ pc = "idle"
    /\ mi = 0
    /\ graph = EmptyGraph
    /\ cycles = <<>>
    /\ ci = 0
    /\ warnings = <<>>
    /\ errors = <<>>
    /\ detected = <<>>
    /\ hooks = <<>>
    /\ pass = 1
    /\ previous = NoReport

\* normal modules with their own resource, each depending on other modules;
\* default options
GraphInputs ==
    /\ \E c \in DependencyCounts : \E t \in TargetRows(c) : modules = ModulesFrom(c, t)
    /\ options = DefaultOptions

\* simple dependency graphs, any exclude/include pair over FilteredResources,
\* with and without onDetected
FilterInputs ==
    /\ \E t \in OtherTargets : modules = SimpleModulesFrom(OwnResource, t)
    /\ \E excl \in SUBSET FilteredResources, notIncl \in SUBSET FilteredResources,
          callback \in BOOLEAN :
         options = [DefaultOptions EXCEPT !.exclude = excl,
                                          !.include = AllResources \ notIncl,
                                          !.onDetected = callback]

\* simple dependency graphs, failOnError set, with and without onDetected
FailInputs ==
    /\ \E t \in SimpleTargets : modules = SimpleModulesFrom(OwnResource, t)
    /\ \E callback \in BOOLEAN :
         options = [DefaultOptions EXCEPT !.failOnError = TRUE, !.onDetected = callback]

\* one module record carries the resource of the first one (the same file
\* requested through another loader chain is a module record of its own);
\* default options
SharedInputs ==
    /\ \E k \in 2..MaxModules : \E t \in SimpleTargets :
         modules = SimpleModulesFrom([OwnResource EXCEPT ![k] = 1], t)
    /\ options = DefaultOptions

Init ==
    /\ InitPass
    /\ \/ GraphInputs
       \/ FilterInputs
       \/ FailInputs
       \/ SharedInputs

Spec == Init /\ [][Next]_vars

\* simple dependency graphs, failOnError set or not, with and without
\* onDetected, with the default patterns or with an exclude that matches
\* FilteredResources
RoutingInputs ==
    /\ \E t \in SimpleTargets : modules = SimpleModulesFrom(OwnResource, t)
    /\ \E fail \in BOOLEAN, callback \in BOOLEAN, excl \in {{}, FilteredResources} :
         options = [DefaultOptions EXCEPT !.failOnError = fail,
                                          !.onDetected = callback,
                                          !.exclude = excl]

RoutingInit == InitPass /\ RoutingInputs

\* one pass, over inputs that differ in failOnError only
RoutingSpec == RoutingInit /\ [][Next]_vars

\* the modules in a ring: the neighbours of module k
NextModule(k) == (k % MaxModules) + 1
PreviousModule(k) == ((k + MaxModules - 2) % MaxModules) + 1

\* at most one dependency per module, on one of its two neighbours: chains,
\* loops of two, the whole ring
RingTargets ==
    {t \in [1..MaxModules -> 0..MaxModules] :
        \A k \in 1..MaxModules : t[k] \in {0, NextModule(k), PreviousModule(k)}}

\* dependency graphs along the ring, any combination of the three callbacks,
\* with the default patterns or with an exclude that matches FilteredResources
HookInputs ==
    /\ \E t \in RingTargets : modules = SimpleModulesFrom(OwnResource, t)
    /\ \E onStart \in BOOLEAN, onEnd \in BOOLEAN, callback \in BOOLEAN,
          excl \in {{}, FilteredResources} :
         options = [DefaultOptions EXCEPT !.onStart = onStart,
                                          !.onEnd = onEnd,
                                          !.onDetected = callback,
                                          !.exclude = excl]

\* module k has at most one dependency record; the one of module w is weak
WeakModulesFrom(target, w) ==
    [k \in 1..MaxModules |->
        NormalModuleRecord(ResourceOf(k),
            IF target[k] = 0 THEN <<>>
            ELSE IF k = w THEN <<WeakDependency(target[k])>>
            ELSE <<Dependency(target[k])>>)]

\* dependency graphs along the ring in which the dependency record of one
\* module, if it has one, is weak; allowAsyncCycles set or not
WeakInputs ==
    /\ \E t \in RingTargets : \E w \in 1..MaxModules : modules = WeakModulesFrom(t, w)
    /\ \E allow \in BOOLEAN :
         options = [DefaultOptions EXCEPT !.allowAsyncCycles = allow]

\* a module record that is not a NormalModule (a ContextModule, say), or a
\* NormalModule without resource
OddModuleRecord(normal, resource, deps) ==
    [normal |-> normal, resource |-> resource, dependencies |-> deps]

\* how module record x is odd: not normal, without resource, or both
OddKinds == {<<FALSE, TRUE>>, <<TRUE, FALSE>>, <<FALSE, FALSE>>}

\* every module record has one dependency record, which resolves to another
\* module or to none (target[k] = 0); module record x is odd
OddModulesFrom(target, x, kind) ==
    [k \in 1..MaxModules |->
        OddModuleRecord(k # x \/ kind[1],
                        IF k # x \/ kind[2] THEN ResourceOf(k) ELSE NoResource,
                        <<Dependency(target[k])>>)]

\* dependency graphs along the ring through one odd module record, with
\* unresolved dependencies; default options
OddInputs ==
    /\ \E t \in RingTargets : \E x \in 1..MaxModules : \E kind \in OddKinds :
         modules = OddModulesFrom(t, x, kind)
    /\ options = DefaultOptions

WatchInit ==
    /\ InitPass
    /\ \/ HookInputs
       \/ WeakInputs
       \/ OddInputs

\* a plugin instance under a host that builds twice
WatchSpec == WatchInit /\ [][WatchNext]_vars

---------------------------------------------------------------------------
(* The ingested dependency graph and its elementary cycles *)

Nodes(g) == Range(g.keys)

Edge(g, a, b) == b \in Range(g.successors[a])

\* s[1] -> s[2] -> ... -> s[n] -> s[1] over pairwise distinct nodes
IsElementaryCycle(g, s) ==
    /\ Len(s) >= 1
    /\ \A i, j \in 1..Len(s) : i # j => s[i] # s[j]
    /\ \A i \in 1..Len(s) : Edge(g, s[i], s[(i % Len(s)) + 1])

Position(g, n) == CHOOSE i \in 1..Len(g.keys) : g.keys[i] = n

\* the elementary cycles that extend the edge path `path` with nodes inserted
\* after path[1], and close at path[1]
RECURSIVE CyclesThrough(_, _)
CyclesThrough(g, path) ==
    LET last == path[Len(path)]
        further == {m \in Range(g.successors[last]) :
                       m \notin Range(path) /\ Position(g, path[1]) < Position(g, m)}
    IN  (IF Edge(g, last, path[1]) THEN {path} ELSE {})
            \cup UNION {CyclesThrough(g, Append(path, m)) : m \in further}

\* one representative per rotation class: the rotation that starts at the
\* member inserted first
ElementaryCycles(g) == UNION {CyclesThrough(g, <<n>>) : n \in Nodes(g)}

Rotations(s) ==
    {[i \in 1..Len(s) |-> s[((i + k - 1) % Len(s)) + 1]] : k \in 0..(Len(s) - 1)}

\* the report of the node sequence s: relative paths, closed by the first one
ClosedPath(s) ==
    Append([i \in 1..Len(s) |-> Relative(options.cwd, s[i])], Relative(options.cwd, s[1]))

\* every path list the pass has reported so far, through any channel
CycleMessages(collection) ==
    {collection[i].message : i \in {j \in 1..Len(collection) : collection[j].kind = "cycle"}}

ReportedPaths ==
    CycleMessages(warnings) \cup CycleMessages(errors)
        \cup {detected[i].paths : i \in 1..Len(detected)}

HasDefaultOptions == options = DefaultOptions

GraphIsComplete == pc \in {"report", "ended"}

---------------------------------------------------------------------------
(* C1 *)

SingleCycleGraph ==
    /\ GraphIsComplete
    /\ Cardinality(ElementaryCycles(graph)) = 1
    /\ \A s \in ElementaryCycles(graph) : Len(s) >= 2

\* C1: when the ingested graph has one elementary cycle, of length >= 2, and
\* no other cycle, a pass with default options ends with exactly one
\* diagnostic, a warning; its path is a rotation of the cycle (so each
\* consecutive pair is an edge and no other node appears) closed by its
\* first element.
C1_SingleCycleReportedOnce ==
    (pc = "ended" /\ HasDefaultOptions /\ SingleCycleGraph) =>
        /\ Len(warnings) = 1
        /\ errors = <<>>
        /\ detected = <<>>
        /\ \E s \in ElementaryCycles(graph) :
             \E r \in Rotations(s) : warnings[1].message = ClosedPath(r)

\* a cycle of three, entered from a node outside it, has been reported
C1_Witness ==
    /\ pc = "ended"
    /\ HasDefaultOptions
    /\ SingleCycleGraph
    /\ \E s \in ElementaryCycles(graph) :
         /\ Len(s) = 3
         /\ \E n \in Nodes(graph) \ Range(s) : \E m \in Range(s) : Edge(graph, n, m)
    /\ Len(warnings) = 1

---------------------------------------------------------------------------
(* C2 *)

\* the nodes whose relative paths p lists before its closing element
\* (path.relative from one directory is one to one)
NodesOfPath(p) ==
    [i \in 1..(Len(p) - 1) |->
        CHOOSE n \in Nodes(graph) : Relative(options.cwd, n) = p[i]]

\* C2: every reported path is n0, ..., nk, n0 for an elementary cycle
\* n0 -> ... -> nk -> n0 of the ingested graph.
C2_ReportedPathIsElementaryCycle ==
    \A p \in ReportedPaths :
        /\ Len(p) >= 2
        /\ \A i \in 1..Len(p) : \E n \in Nodes(graph) : Relative(options.cwd, n) = p[i]
        /\ IsElementaryCycle(graph, NodesOfPath(p))
        /\ p = ClosedPath(NodesOfPath(p))

---------------------------------------------------------------------------
(* C3 *)

\* C3: with default options, a finished pass has reported every elementary
\* cycle of length >= 2 of the ingested graph exactly once, up to rotation.
C3_EveryCycleReportedOnce ==
    (pc = "ended" /\ HasDefaultOptions) =>
        \A s \in {c \in ElementaryCycles(graph) : Len(c) >= 2} :
            Cardinality({i \in 1..Len(warnings) :
                \E r \in Rotations(s) : warnings[i].message = ClosedPath(r)}) = 1

---------------------------------------------------------------------------
(* C4 *)

\* C4: while the ingested graph has no cycle, nothing is appended to
\* warnings or errors and onDetected is never invoked.
C4_AcyclicReportsNothing ==
    (GraphIsComplete /\ ElementaryCycles(graph) = {}) =>
        /\ warnings = <<>>
        /\ errors = <<>>
        /\ detected = <<>>

\* a pass over a chain of three dependencies, with onDetected configured, ended
C4_Witness ==
    /\ pc = "ended"
    /\ options.onDetected
    /\ ElementaryCycles(graph) = {}
    /\ Cardinality({e \in Nodes(graph) \X Nodes(graph) : Edge(graph, e[1], e[2])}) >= 3
    /\ detected = <<>>
    /\ warnings = <<>>
    /\ errors = <<>>

---------------------------------------------------------------------------
(* C5 *)

\* C5: no reported path is a single node repeated: every reported path has
\* at least two distinct members.
C5_NoSelfCycleReported ==
    \A p \in ReportedPaths : Cardinality(Range(p)) >= 2

---------------------------------------------------------------------------
(* C6 *)

\* the member neither matches exclude nor fails include
Survives(name) == name \notin options.exclude /\ name \in options.include

\* p is the closed path list of all the members of the cycle
IsFullPathOf(p, cycle) ==
    /\ Len(p) = Len(cycle) + 1
    /\ p[Len(p)] = p[1]
    /\ {p[i] : i \in 1..Len(cycle)} = {Relative(options.cwd, n) : n \in Range(cycle)}

CycleErrors(collection) == SelectSeq(collection, LAMBDA e : e.kind = "cycle")

\* the diagnostics and callback invocations emitted for cycles so far
EmittedCount == Len(warnings) + Len(CycleErrors(errors)) + Len(detected)

\* C6: the step that handles a cycle emits nothing (no warning, no error, no
\* onDetected call) when every member matches exclude or fails include, and
\* otherwise emits exactly one report, which lists every member of the cycle,
\* the excluded ones too.
C6_FilterIsPerCycle ==
    [][(pc = "report" /\ ci <= Len(cycles) /\ ci' = ci + 1) =>
          IF \A i \in 1..Len(cycles[ci]) : ~Survives(cycles[ci][i])
          THEN warnings' = warnings /\ errors' = errors /\ detected' = detected
          ELSE /\ EmittedCount' = EmittedCount + 1
               /\ \/ /\ Len(detected') = Len(detected) + 1
                     /\ IsFullPathOf(detected'[Len(detected')].paths, cycles[ci])
                  \/ /\ Len(warnings') = Len(warnings) + 1
                     /\ IsFullPathOf(warnings'[Len(warnings')].message, cycles[ci])
                  \/ /\ Len(errors') = Len(errors) + 1
                     /\ errors'[Len(errors')].kind = "cycle"
                     /\ IsFullPathOf(errors'[Len(errors')].message, cycles[ci])]_vars

\* a cycle with a member that matches exclude and a member that survives was
\* reported with all its members
C6_Witness ==
    /\ GraphIsComplete
    /\ \E k \in 1..(ci - 1) :
         /\ \E n \in Range(cycles[k]) : n \in options.exclude
         /\ \E n \in Range(cycles[k]) : Survives(n)
         /\ \E p \in ReportedPaths : IsFullPathOf(p, cycles[k])

---------------------------------------------------------------------------
(* C7 *)

\* the cycle has been reported through some channel
IsReported(cycle) == \E p \in ReportedPaths : IsFullPathOf(p, cycle)

\* C7 as claimed: a handled cycle is suppressed exactly when every member
\* matches exclude, or every member fails include.
C7_IndependentConditions ==
    GraphIsComplete =>
        \A k \in 1..(ci - 1) :
            ~IsReported(cycles[k]) <=>
                \/ \A n \in Range(cycles[k]) : n \in options.exclude
                \/ \A n \in Range(cycles[k]) : n \notin options.include

\* C7, amended: a handled cycle is suppressed exactly when every member
\* matches exclude or fails include, member by member; it is reported exactly
\* when one and the same member does not match exclude and matches include.
C7_MemberwiseCondition ==
    GraphIsComplete =>
        \A k \in 1..(ci - 1) :
            IsReported(cycles[k]) <=> \E n \in Range(cycles[k]) : Survives(n)

\* a cycle with one member matching exclude and another failing include was
\* suppressed, though not all match exclude and not all fail include
C7_Witness ==
    /\ GraphIsComplete
    /\ \E k \in 1..(ci - 1) :
         /\ \E n \in Range(cycles[k]) : n \notin options.exclude
         /\ \E n \in Range(cycles[k]) : n \in options.include
         /\ \A n \in Range(cycles[k]) : ~Survives(n)
         /\ ~IsReported(cycles[k])

---------------------------------------------------------------------------
(* C8 *)

Reportable(cycle) == \E n \in Range(cycle) : Survives(n)

\* C8: with onDetected configured, whatever failOnError is, no default
\* warning or error is synthesized, and onDetected has been invoked exactly
\* once for every reportable cycle handled so far, with its closed path list.
C8_OnDetectedReplacesDefault ==
    options.onDetected =>
        /\ warnings = <<>>
        /\ CycleErrors(errors) = <<>>
        /\ GraphIsComplete =>
             /\ \A k \in 1..(ci - 1) :
                  Cardinality({i \in 1..Len(detected) :
                                  IsFullPathOf(detected[i].paths, cycles[k])})
                      = IF Reportable(cycles[k]) THEN 1 ELSE 0
             /\ Len(detected) = Cardinality({k \in 1..(ci - 1) : Reportable(cycles[k])})

\* with failOnError set, two cycles went to onDetected and the pass ended
C8_Witness ==
    /\ pc = "ended"
    /\ options.onDetected
    /\ options.failOnError
    /\ Len(detected) = 2
    /\ warnings = <<>>

---------------------------------------------------------------------------
(* C9 *)

\* C9: every onDetected invocation carries an origin module, the module
\* record whose path is the first element of the path list of that invocation.
C9_OriginModulePassed ==
    \A i \in 1..Len(detected) :
        /\ detected[i].module \in 1..Len(modules)
        /\ Relative(options.cwd, modules[detected[i].module].resource)
               = detected[i].paths[1]

---------------------------------------------------------------------------
(* C10 *)

\* the invocations of onDetected that threw, by their number
ThrowingCalls == SelectSeq([i \in 1..Len(detected) |-> i], LAMBDA i : detected[i].threw)

\* C10: with onDetected configured, compilation.errors holds exactly one
\* entry per invocation that threw, the thrown value, in invocation order;
\* the pass goes on, and when it has ended every reportable cycle has been
\* passed to onDetected, those after a throwing invocation too.
C10_ThrowIsCaught ==
    options.onDetected =>
        /\ errors = [j \in 1..Len(ThrowingCalls) |-> ThrownError(ThrowingCalls[j])]
        /\ pc \in {"idle", "ingest", "report", "ended"}
        /\ pc = "ended" =>
             Len(detected) = Cardinality({k \in 1..Len(cycles) : Reportable(cycles[k])})

\* the first of two invocations threw, and the second cycle was still passed
C10_Witness ==
    /\ pc = "ended"
    /\ Len(detected) = 2
    /\ detected[1].threw
    /\ errors # <<>>
    /\ errors[1] = ThrownError(1)

---------------------------------------------------------------------------
(* C11 *)

\* the graph after the first n module records went through lines 58-84
RECURSIVE IngestedUpTo(_)
IngestedUpTo(n) ==
    IF n = 0 THEN EmptyGraph
    ELSE IF SkipsModule(modules[n]) THEN IngestedUpTo(n - 1)
         ELSE GraphAdd(IngestedUpTo(n - 1), modules[n].resource,
                       DependencyResources(n, modules[n].dependencies))

\* the default diagnostics of a whole pass over the module records, as a
\* function of the records and of exclude, include, allowAsyncCycles and cwd:
\* failOnError does not occur in it
DefaultDiagnostics ==
    LET kept == SelectSeq(GetCycles(IngestedUpTo(Len(modules))),
                          LAMBDA c : \E n \in Range(c) : Survives(n))
    IN  [i \in 1..Len(kept) |-> CycleError(ClosedPath(Reverse(kept[i])))]

\* C11: without onDetected, a finished pass with failOnError has appended to
\* errors exactly the sequence that the pass without failOnError appends to
\* warnings (the failOnError-free sequence DefaultDiagnostics: same count,
\* order and messages), and at no time does the other collection receive
\* anything.
C11_FailOnErrorOnlyRoutes ==
    ~options.onDetected =>
        /\ options.failOnError => warnings = <<>>
        /\ ~options.failOnError => errors = <<>>
        /\ pc = "ended" =>
             IF options.failOnError THEN errors = DefaultDiagnostics
             ELSE warnings = DefaultDiagnostics

\* a pass with failOnError ended with two errors and no warning
C11_Witness ==
    /\ pc = "ended"
    /\ ~options.onDetected
    /\ options.failOnError
    /\ Len(errors) = 2
    /\ errors = DefaultDiagnostics
    /\ warnings = <<>>

---------------------------------------------------------------------------
(* C12 *)

HookCalls(name) == Cardinality({i \in 1..Len(hooks) : hooks[i].name = name})

\* the step takes a module record through the ingestion loop
IngestsModule == pc = "ingest" /\ mi' = mi + 1

\* the step calls onDetected or pushes a diagnostic
Emits ==
    \/ Len(detected') > Len(detected)
    \/ Len(warnings') > Len(warnings)
    \/ Len(errors') > Len(errors)

\* every cycle the finder returned has been filtered, and reported if reportable
AllCyclesHandled ==
    /\ cycles = GetCycles(graph)
    /\ ci = Len(cycles) + 1
    /\ Len(detected) + Len(warnings) + Len(CycleErrors(errors))
           = Cardinality({k \in 1..Len(cycles) : Reportable(cycles[k])})

\* C12: in every pass, onStart is invoked once, from the idle position, before
\* any module record is ingested and before anything is emitted; onEnd is
\* invoked once, only when every cycle has been filtered and reported; no
\* onDetected call and no diagnostic happens before onStart or after onEnd.
\* A pass that has ended has called each configured callback exactly once,
\* cycles or none.
C12_LifecycleOrdered ==
    /\ [](/\ HookCalls("onStart") <= 1
          /\ HookCalls("onEnd") <= 1
          /\ pc = "ended" =>
               /\ hooks = (IF options.onStart THEN <<HookCall("onStart", FALSE)>> ELSE <<>>)
                        \o (IF options.onEnd THEN <<HookCall("onEnd", FALSE)>> ELSE <<>>)
               /\ AllCyclesHandled)
    /\ [][/\ HookCalls("onStart")' > HookCalls("onStart") =>
               pc = "idle" /\ hooks = <<>>
          /\ (IngestsModule \/ Emits) =>
               /\ options.onStart => HookCalls("onStart") = 1
               /\ HookCalls("onEnd") = 0 /\ HookCalls("onEnd")' = 0
          /\ HookCalls("onEnd")' > HookCalls("onEnd") =>
               /\ AllCyclesHandled
               /\ options.onStart => hooks = <<HookCall("onStart", FALSE)>>
               /\ UNCHANGED <<graph, detected, warnings, errors>>]_vars

\* a pass over an acyclic graph of three dependencies called onStart, then onEnd
C12_WitnessAcyclic ==
    /\ pc = "ended"
    /\ hooks = <<HookCall("onStart", FALSE), HookCall("onEnd", FALSE)>>
    /\ cycles = <<>>
    /\ Cardinality({e \in Nodes(graph) \X Nodes(graph) : Edge(graph, e[1], e[2])}) >= 3

\* a pass that reported two cycles to onDetected called onStart before and
\* onEnd after
C12_Witness ==
    /\ pc = "ended"
    /\ hooks = <<HookCall("onStart", FALSE), HookCall("onEnd", FALSE)>>
    /\ Len(detected) = 2

---------------------------------------------------------------------------
(* C13 *)

\* control is back with the host
Returned == pc \in {"ended", "thrown"}

\* C13: no exception leaves the pass, and whenever a pass that called onStart
\* has given control back to the host it is in the ended position, with onEnd
\* invoked if configured.
C13_StartedPassEnds ==
    /\ pc # "thrown"
    /\ (Returned /\ HookCalls("onStart") = 1) =>
          /\ pc = "ended"
          /\ options.onEnd => HookCalls("onEnd") = 1

---------------------------------------------------------------------------
(* C14 *)

\* R, and the pairs joined by a path of at most n + 1 pairs of R
RECURSIVE PathsWithin(_, _)
PathsWithin(R, n) ==
    IF n = 0 THEN R
    ELSE LET S == PathsWithin(R, n - 1)
         IN  S \cup {<<x[1][1], x[2][2]>> : x \in {y \in S \X R : y[1][2] = y[2][1]}}

ModuleIndices == 1..Len(modules)

\* module record k is a normal module with a resource
IsSound(k) == modules[k].normal /\ modules[k].resource # NoResource

\* the dependency records of module record k that resolve to another sound
\* module record
ResolvedDependencies(k) ==
    {d \in Range(modules[k].dependencies) :
        d.module # 0 /\ d.module # k /\ IsSound(d.module)}

\* the record whose graph.add was the last one for the node r, if any
IsLastRecordOf(k, r) ==
    /\ ~SkipsModule(modules[k])
    /\ modules[k].resource = r
    /\ \A j \in ModuleIndices :
          (j > k /\ modules[j].resource = r) => SkipsModule(modules[j])

\* the edges of the ingested graph
GraphEdges == UNION {{<<a, b>> : b \in Range(graph.successors[a])} : a \in Nodes(graph)}

\* the edges from the resource of module record k by its resolved dependency
\* records, weak ones left out or not
EdgesOfRecord(k, withWeak) ==
    {<<modules[k].resource, modules[d.module].resource>> :
        d \in {e \in ResolvedDependencies(k) : withWeak \/ ~e.weak}}

\* the edges that the dependency records contribute: those of the last record
\* added for each node
RecordEdges(withWeak) ==
    UNION {EdgesOfRecord(k, withWeak) :
              k \in {j \in ModuleIndices : IsLastRecordOf(j, modules[j].resource)}}

\* every dependency of a sound module record on another one, by resource
DependsOn(withWeak) ==
    UNION {EdgesOfRecord(k, withWeak) : k \in {j \in ModuleIndices : IsSound(j)}}

\* ingestion is over and the loop over the cycles has not handled one yet
AnalysisBegins == pc = "report" /\ ci = 1

HasLoop(R) == \E p \in PathsWithin(R, Cardinality(R)) : p[1] = p[2]

IsCovered(s) == \E p \in ReportedPaths : {Relative(options.cwd, n) : n \in Range(s)} \subseteq Range(p)

\* C14: with allowAsyncCycles the weak dependency records contribute no edge
\* (when cycle analysis begins, the edges of the graph are those of the other
\* records), and nothing is reported unless the other records form a loop:
\* a loop that only a weak record closes is not reported.  Without
\* allowAsyncCycles the weak records contribute edges like the others, and
\* with the default patterns every loop of the ingested graph is reported.
C14_WeakDependencies ==
    GraphIsComplete =>
        /\ AnalysisBegins => GraphEdges = RecordEdges(~options.allowAsyncCycles)
        /\ (options.allowAsyncCycles
               /\ (warnings # <<>> \/ errors # <<>> \/ detected # <<>>)) =>
              HasLoop(DependsOn(FALSE))
        /\ (~options.allowAsyncCycles /\ pc = "ended"
               /\ options.exclude = {} /\ options.include = AllResources) =>
              \A s \in ElementaryCycles(graph) : IsCovered(s)

\* three dependency records or more, with a loop that only a weak one closes
WeakLoop ==
    /\ HasLoop(DependsOn(TRUE))
    /\ ~HasLoop(DependsOn(FALSE))
    /\ \E k \in ModuleIndices : \E d \in ResolvedDependencies(k) : d.weak
    /\ Cardinality(DependsOn(TRUE)) >= 3

\* with allowAsyncCycles, a pass over a loop closed by a weak record ended
\* without a report
C14_Witness ==
    /\ pc = "ended"
    /\ options.allowAsyncCycles
    /\ WeakLoop
    /\ warnings = <<>>

\* without allowAsyncCycles, the same loop was reported
C14_WitnessReported ==
    /\ pc = "ended"
    /\ ~options.allowAsyncCycles
    /\ WeakLoop
    /\ Len(warnings) = 1

---------------------------------------------------------------------------
(* C15 *)

SoundIndices == {k \in ModuleIndices : IsSound(k)}

\* C15: a module record that is not a normal module or has no resource, and
\* a dependency record that resolves to no module or to such a module,
\* contribute no node and no edge: when cycle analysis begins, every node is
\* the resource of a normal module with a resource, and every edge joins two
\* such modules of which the first has a dependency record on the second.
\* Nothing is thrown, and nothing is reported unless the dependency records
\* between such modules form a loop.
C15_AnomaliesAreSkipped ==
    /\ hooks = <<>> => pc # "thrown"
    /\ AnalysisBegins =>
          /\ NoResource \notin Nodes(graph)
          /\ Nodes(graph) \subseteq {modules[k].resource : k \in SoundIndices}
          /\ GraphEdges \subseteq DependsOn(TRUE)
    /\ GraphIsComplete =>
          /\ (warnings # <<>> \/ errors # <<>> \/ detected # <<>>) =>
                HasLoop(DependsOn(TRUE))

\* h -> i -> a -> i with i odd: every module was looked at and the pass ended
\* without a diagnostic
C15_Witness ==
    /\ pc = "ended"
    /\ \E i \in ModuleIndices \ SoundIndices : \E a, h \in SoundIndices :
         /\ a # h
         /\ modules[i].dependencies = <<Dependency(a)>>
         /\ modules[a].dependencies = <<Dependency(i)>>
         /\ modules[h].dependencies = <<Dependency(i)>>
         /\ \E u \in SoundIndices : modules[u].dependencies = <<Dependency(0)>>
    /\ warnings = <<>>
    /\ errors = <<>>

---------------------------------------------------------------------------
(* C16 *)

\* the path lists of the reportable cycles, in the order the finder yields them
PathsInFinderOrder(found) ==
    LET kept == SelectSeq(found, Reportable)
    IN  [i \in 1..Len(kept) |-> ClosedPath(Reverse(kept[i]))]

C16_WitnessCallbacks ==
    /\ pc = "ended"
    /\ pass = 2
    /\ Len(detected) = 2
    /\ previous.detected = PassReport.detected
    /\ errors = <<>>

---------------------------------------------------------------------------
(* C17 *)

\* the module records that reach graph.add
IngestedIndices == {k \in ModuleIndices : ~SkipsModule(modules[k])}

\* the edges registered during the pass, by any module record
RegisteredEdges ==
    UNION {EdgesOfRecord(k, ~options.allowAsyncCycles) : k \in IngestedIndices}

\* C17: when cycle analysis begins the graph has one node per distinct
\* resource among the ingested module records and their kept dependencies,
\* and holds the edge m.resource -> d.resource for every ingested module
\* record m and every dependency d of m that passed the skip checks: no edge
\* registered earlier in the pass has been lost.
C17_IngestionAccumulates ==
    AnalysisBegins =>
        /\ Len(graph.keys) = Cardinality(Nodes(graph))
        /\ Nodes(graph) = {modules[k].resource : k \in IngestedIndices}
                              \cup {e[2] : e \in RegisteredEdges}
        /\ RegisteredEdges \subseteq GraphEdges

---------------------------------------------------------------------------
(* C18 *)

\* a reaches b along one edge or more of the ingested graph
Reaches(a, b) == <<a, b>> \in PathsWithin(GraphEdges, Cardinality(GraphEdges))

\* the strongly connected component of the node n
ComponentOf(n) == {n} \cup {m \in Nodes(graph) : Reaches(n, m) /\ Reaches(m, n)}

Components == {ComponentOf(n) : n \in Nodes(graph)}

\* depth-first traversal from the nodes in insertion order, successors in
\* stored order: the nodes in the order they are discovered
RECURSIVE Discover(_, _)
Discover(todo, seen) ==
    IF todo = <<>> THEN seen
    ELSE IF Head(todo) \in Range(seen) THEN Discover(Tail(todo), seen)
    ELSE Discover(graph.successors[Head(todo)] \o Tail(todo), Append(seen, Head(todo)))

DiscoveryOrder == Discover(graph.keys, <<>>)

DiscoveredAt(n) == CHOOSE i \in 1..Len(DiscoveryOrder) : DiscoveryOrder[i] = n

FirstDiscovered(component) ==
    CHOOSE n \in component : \A m \in component : DiscoveredAt(n) <= DiscoveredAt(m)

\* the path lists a pass has emitted, whatever the channel
EmittedPaths ==
    PassReport.detected
        \o [i \in 1..Len(warnings) |-> warnings[i].message]
        \o [i \in 1..Len(PassReport.errors) |-> PassReport.errors[i].message]

NoFilter == options.exclude = {} /\ options.include = AllResources

\* p lists every member of the component once, from the member discovered
\* first, and is closed by that member
IsPathOfComponent(p, component) ==
    /\ Len(p) = Cardinality(component) + 1
    /\ {p[i] : i \in 1..(Len(p) - 1)} = {Relative(options.cwd, n) : n \in component}
    /\ p[1] = Relative(options.cwd, FirstDiscovered(component))
    /\ p[Len(p)] = p[1]

\* the paths emitted are pairwise node-disjoint and correspond one to one
\* with the given components
OnePathPerComponent(components) ==
    /\ \A i, j \in 1..Len(EmittedPaths) :
          i # j => Range(EmittedPaths[i]) \cap Range(EmittedPaths[j]) = {}
    /\ Len(EmittedPaths) = Cardinality(components)
    /\ \A c \in components :
          \E i \in 1..Len(EmittedPaths) : IsPathOfComponent(EmittedPaths[i], c)

\* C18: without filtering, the paths reported by a finished pass are pairwise
\* node-disjoint and correspond one to one with the strongly connected
\* components of size >= 2 of the ingested graph; each lists every member of
\* its component once, starting from the member the depth-first traversal
\* discovered first, and ends with that member again.
C18_OnePathPerLargeComponent ==
    (pc = "ended" /\ NoFilter) =>
        OnePathPerComponent({c \in Components : Cardinality(c) >= 2})

\* what the pass does report: one path per strongly connected component of
\* size >= 2 and one per single node that is its own successor
OnePathPerCyclicComponent ==
    (pc = "ended" /\ NoFilter) =>
        OnePathPerComponent({c \in Components :
            Cardinality(c) >= 2 \/ \E n \in c : Edge(graph, n, n)})

\* a pass reported a self-depending node and a component of two
SelfLoopAndComponentReported ==
    /\ pc = "ended"
    /\ NoFilter
    /\ Len(EmittedPaths) = 2
    /\ \E i, j \in 1..2 : Len(EmittedPaths[i]) = 2 /\ Len(EmittedPaths[j]) = 3

\* a pass reported a component of three with four edges
LargeComponentReported ==
    /\ pc = "ended"
    /\ NoFilter
    /\ Len(EmittedPaths) = 1
    /\ Len(EmittedPaths[1]) = 4
    /\ Cardinality(GraphEdges) = 4

====
